---- MODULE Spec2Model ----
(***************************************************************************)
(* State-machine models of the four scripts of the repository:             *)
(*   - litert-flutter-integration/scripts/model_validator.py               *)
(*   - edgetam-segmentation/scripts/bbox_batch_segmentation.py             *)
(*   - edgetam-segmentation/scripts/interactive_segmentation.py            *)
(*   - edgetam-segmentation/scripts/video_object_tracker.py                *)
(* Each script is a separate single-threaded program; each has its own     *)
(* specification (SpecValidator, SpecScorePair, SpecBatch, SpecSegmenter,  *)
(* SpecTracker) over its own variables, the other programs standing idle.  *)
(* The pretrained models and the TFLite interpreter are external: what     *)
(* they return is an input of the model, drawn from small sets.            *)
(***************************************************************************)
EXTENDS Integers, Sequences, FiniteSets, TLC

VARIABLES
    \* ---- model_validator.py ----
    model_file,          \* the file at model_path and what the interpreter reports for it
    args,                \* the validator's command line: [test, json]
    test_outcome,        \* how the try block of test_inference ends
    validation_results,  \* TFLiteModelValidator.validation_results
    printed_score,       \* the X of the "Compatibility Score: X/100" line (NoValue: not printed)
    v_pc,                \* where main() of the validator is
    exit_code,           \* the validator's process exit code (NoValue: still running)
    \* ---- a second validator run on another model, for comparing scores ----
    other_file,
    other_results,
    other_pc,
    \* ---- bbox_batch_segmentation.py ----
    boxes_file,          \* all_boxes in key order: [stem, ext, exists, boxes] per image
    batch_size,          \* args.batch_size
    b_i,                 \* i of the batch loop
    batch_names,
    batch_images,        \* the images loaded for the batch, each with its boxes
    batch_masks,         \* what process_batch returned
    b_j,                 \* how many pairs of zip(batch_names, batch_masks) are saved
    output_dir,          \* the files of args.output_dir: file name -> what was written
    b_log,               \* history: inference calls, file writes, logged errors, Done
    b_pc,
    \* ---- interactive_segmentation.py ----
    segmenter,           \* the InteractiveSegmenter object
    model_calls,         \* history: the inference calls made, each with its output
    window,              \* what cv2.imshow last showed
    mask_file,           \* the file at args.output
    click_log,           \* history: the clicks since construction or the last reset
    s_last,              \* the last event handled
    s_pc,
    \* ---- video_object_tracker.py ----
    prompts,             \* the prompts file: [objects, refinements]
    visualize,           \* visualize and output_dir are given
    inference_session,   \* [inputs, obj_ids]: the prompts registered, the object ids known
    t_k,                 \* how many entries of the list being walked are done
    yields,              \* history: the frame indices the propagation iterator yielded
    video_segments,      \* frame index -> object id -> mask
    frames_written,      \* the frame indices written to the annotated video
    t_pc

validatorVars == <<model_file, args, test_outcome, validation_results, printed_score,
                   v_pc, exit_code>>
pairVars == <<other_file, other_results, other_pc>>
batchVars == <<boxes_file, batch_size, b_i, batch_names, batch_images, batch_masks, b_j,
               output_dir, b_log, b_pc>>
segVars == <<segmenter, model_calls, window, mask_file, click_log, s_last, s_pc>>
trackVars == <<prompts, visualize, inference_session, t_k, yields, video_segments,
               frames_written, t_pc>>
vars == <<validatorVars, pairVars, batchVars, segVars, trackVars>>

NoValue == -1000

(***************************************************************************)
(* Helpers on sequences and integers.                                      *)
(***************************************************************************)
Max(a, b) == IF a >= b THEN a ELSE b

RECURSIVE Product(_)
Product(s) == IF s = <<>> THEN 1 ELSE Head(s) * Product(Tail(s))

RECURSIVE SumOver(_, _)
\* sum of f[i] for i in 1..n
SumOver(f, n) == IF n = 0 THEN 0 ELSE f[n] + SumOver(f, n - 1)

RECURSIVE SelectPos(_)
\* [s for s in shape if s > 0]
SelectPos(shape) ==
    IF shape = <<>> THEN <<>>
    ELSE IF Head(shape) > 0 THEN <<Head(shape)>> \o SelectPos(Tail(shape))
         ELSE SelectPos(Tail(shape))

Contains(s, v) == \E i \in 1..Len(s) : s[i] = v

(***************************************************************************)
(* model_validator.py                                                      *)
(***************************************************************************)
MiB == 1048576

\* round(bytes / (1024 * 1024), 2), in hundredths of a MB.  bytes / 2^20 is exact
\* in binary floating point, so the rounding is to the nearest hundredth, an
\* exact tie going to the even hundredth.
RoundMB(bytes) ==
    LET whole == bytes \div MiB
        rest  == (bytes % MiB) * 100
        q     == rest \div MiB
        r     == rest % MiB
        up    == \/ 2 * r > MiB
                 \/ (2 * r = MiB /\ q % 2 = 1)
    IN  whole * 100 + q + (IF up THEN 1 ELSE 0)

\* np.dtype(dtype).itemsize
ItemSize(dtype) ==
    CASE dtype = "float32" -> 4
      [] dtype = "float16" -> 2
      [] dtype = "int8"    -> 1
      [] dtype = "uint8"   -> 1

\* dtype in [np.uint8, np.int8]
IsInt8(dtype) == dtype \in {"uint8", "int8"}

\* TFLiteModelValidator.__init__: validation_results
NewResults == [valid |-> TRUE, errors |-> <<>>, warnings |-> <<>>, info |-> <<>>]

\* info[key] = value
SetInfo(r, key, value) == [r EXCEPT !.info = (key :> value) @@ r.info]

\* key in info
HasInfo(r, key) == key \in DOMAIN r.info

AddWarning(r, w) == [r EXCEPT !.warnings = Append(@, w)]

\* _check_file_size: info['size_mb'] is the rounded size, the warnings compare
\* the size before rounding
_check_file_size(m, r) ==
    LET r1 == SetInfo(r, "size_mb", RoundMB(m.size_bytes))
    IN  IF m.size_bytes > 100 * MiB THEN AddWarning(r1, "size_large")
        ELSE IF m.size_bytes > 50 * MiB THEN AddWarning(r1, "size_may_impact")
        ELSE r1

RECURSIVE InputInfo(_, _, _)
\* the loop of _check_input_output over input_details, from index i (0-based)
InputInfo(details, i, r) ==
    IF i >= Len(details) THEN r
    ELSE LET d  == details[i + 1]
             r1 == IF Contains(d.shape, -1) THEN AddWarning(r, "dynamic_shape") ELSE r
             r2 == SetInfo(r1, "input_" \o ToString(i) \o "_shape", d.shape)
             r3 == SetInfo(r2, "input_" \o ToString(i) \o "_type", d.dtype)
         IN  InputInfo(details, i + 1, r3)

RECURSIVE OutputInfo(_, _, _)
\* the loop of _check_input_output over output_details
OutputInfo(details, i, r) ==
    IF i >= Len(details) THEN r
    ELSE LET d  == details[i + 1]
             r1 == SetInfo(r, "output_" \o ToString(i) \o "_shape", d.shape)
             r2 == SetInfo(r1, "output_" \o ToString(i) \o "_type", d.dtype)
         IN  OutputInfo(details, i + 1, r2)

_check_input_output(m, r) ==
    OutputInfo(m.output_details, 0, InputInfo(m.input_details, 0, r))

\* is_quantized of _check_quantization
IsQuantized(m) ==
    \E i \in 1..Len(m.input_details \o m.output_details) :
        IsInt8((m.input_details \o m.output_details)[i].dtype)

\* _check_quantization raises IndexError: in a quantized model, the loop over the
\* inputs takes element [0] of quantization_parameters['scales'] (and of
\* 'zero_points'), which is an empty array for a tensor that is not quantized
QuantizationRaises(m) ==
    /\ IsQuantized(m)
    /\ \E i \in 1..Len(m.input_details) : m.input_details[i].quant = "empty"

_check_quantization(m, r) ==
    LET r1 == SetInfo(r, "quantized", IsQuantized(m))
    IN  IF IsQuantized(m) THEN r1 ELSE AddWarning(r1, "not_quantized")

_check_operations(m, r) ==
    CASE m.ops = "unreadable" -> AddWarning(r, "ops_unchecked")
      [] m.ops = "flex"       -> AddWarning(r, "select_tf_ops")
      [] m.ops = "builtin"    -> r

\* input_memory or output_memory of _check_memory_usage, in bytes
TensorBytes(details) ==
    SumOver([i \in 1..Len(details) |->
                Product(SelectPos(details[i].shape)) * ItemSize(details[i].dtype)],
            Len(details))

_check_memory_usage(m, r) ==
    LET total == TensorBytes(m.input_details) + TensorBytes(m.output_details)
        r1    == SetInfo(r, "estimated_memory_mb", RoundMB(total))
    IN  IF total > 100 * MiB THEN AddWarning(r1, "high_memory") ELSE r1

\* RawScore with the penalties of the two size tiers swapped
Mut_RawScore_TiersSwapped(r) ==
    LET quantized == IF HasInfo(r, "quantized") THEN r.info["quantized"] ELSE FALSE
        size_mb   == r.info["size_mb"]
        memory_mb == IF HasInfo(r, "estimated_memory_mb")
                     THEN r.info["estimated_memory_mb"] ELSE 0
        s1 == 100 - (IF ~quantized THEN 20 ELSE 0)
        s2 == s1 - (IF size_mb > 5000 THEN 5 ELSE IF size_mb > 2000 THEN 15 ELSE 0)
        s3 == s2 - (IF memory_mb > 5000 THEN 10 ELSE 0)
    IN  IF Len(r.warnings) > 0 THEN s3 - Len(r.warnings) * 5 ELSE s3

\* compatibility_score of _check_mobile_compatibility before the floor: the
\* value the "Compatibility Score" line prints and the rating is picked from
RawScore(r) ==
    LET quantized == IF HasInfo(r, "quantized") THEN r.info["quantized"] ELSE FALSE
        size_mb   == r.info["size_mb"]
        memory_mb == IF HasInfo(r, "estimated_memory_mb")
                     THEN r.info["estimated_memory_mb"] ELSE 0
        s1 == 100 - (IF ~quantized THEN 20 ELSE 0)
        s2 == s1 - (IF size_mb > 5000 THEN 15 ELSE IF size_mb > 2000 THEN 5 ELSE 0)
        s3 == s2 - (IF memory_mb > 5000 THEN 10 ELSE 0)
    IN  IF Len(r.warnings) > 0 THEN s3 - Len(r.warnings) * 5 ELSE s3

\* _check_mobile_compatibility storing the score without the floor at 0
Mut_compatibility_NoFloor(r) == SetInfo(r, "compatibility_score", RawScore(r))

_check_mobile_compatibility(r) ==
    SetInfo(r, "compatibility_score", Max(0, RawScore(r)))

\* the results as validate() leaves them when the model exists and loads and no
\* check raises
ChecksDone(m, r) ==
    _check_mobile_compatibility(
        _check_memory_usage(m,
            _check_operations(m,
                _check_quantization(m,
                    _check_input_output(m, _check_file_size(m, r))))))

\* validate() going on with the checks after the interpreter failed to load
Mut_validate_ChecksAfterLoadFailure(m, r) ==
    IF ~m.exists
    THEN [results |-> [r EXCEPT !.valid = FALSE,
                                !.errors = Append(@, "model_file_not_found")],
          outcome |-> "returned"]
    ELSE IF ~m.loads
    THEN [results |-> [ChecksDone(m, r) EXCEPT
                           !.valid = FALSE,
                           !.errors = Append(@, "failed_to_load_model")],
          outcome |-> "returned"]
    ELSE IF QuantizationRaises(m)
    THEN [results |-> SetInfo(_check_input_output(m, _check_file_size(m, r)),
                              "quantized", TRUE),
          outcome |-> "raised"]
    ELSE [results |-> ChecksDone(m, r), outcome |-> "returned"]

\* validate(): [results, outcome], outcome "returned", or "raised" when a check
\* raises out of validate()
validate(m, r) ==
    IF ~m.exists
    THEN [results |-> [r EXCEPT !.valid = FALSE,
                                !.errors = Append(@, "model_file_not_found")],
          outcome |-> "returned"]
    ELSE IF ~m.loads
    THEN [results |-> [_check_file_size(m, r) EXCEPT
                           !.valid = FALSE,
                           !.errors = Append(@, "failed_to_load_model")],
          outcome |-> "returned"]
    ELSE IF QuantizationRaises(m)
    THEN [results |-> SetInfo(_check_input_output(m, _check_file_size(m, r)),
                              "quantized", TRUE),
          outcome |-> "raised"]
    ELSE [results |-> ChecksDone(m, r), outcome |-> "returned"]

\* how the try block of test_inference ends: it completes, or it raises before
\* info['cpu_inference_ms'] is set (set_tensor, invoke), or after it (get_tensor)
TestOutcomes == {"passes", "raises", "raises_after_timing"}

\* test_inference() recording a failed forward pass as an error of the model
Mut_test_inference_FailureIsError(r, outcome) ==
    IF outcome = "passes" THEN SetInfo(r, "cpu_inference_ms", 1)
    ELSE [r EXCEPT !.valid = FALSE, !.errors = Append(@, "test_inference_failed")]

\* test_inference(): a failure of the dummy forward pass is caught and recorded
\* as a warning
test_inference(r, outcome) ==
    CASE outcome = "passes" -> SetInfo(r, "cpu_inference_ms", 1)
      [] outcome = "raises" -> AddWarning(r, "test_inference_failed")
      [] outcome = "raises_after_timing" ->
            AddWarning(SetInfo(r, "cpu_inference_ms", 1), "test_inference_failed")

(***************************************************************************)
(* The model files the validator is run on.                                *)
(***************************************************************************)
MaxInputs == 8

Tensor(shape, dtype, quant) == [shape |-> shape, dtype |-> dtype, quant |-> quant]

\* quant: what detail['quantization_parameters'] holds: "set" (one scale and
\* zero point), "empty" (empty arrays: the tensor is not quantized), "absent" (no
\* such key)
InputTensors ==
    { Tensor(<<1, 4>>, "float32", "absent"),
      Tensor(<<1, 4>>, "float32", "empty"),
      Tensor(<<-1, 4096, 4096>>, "float32", "absent"),
      Tensor(<<1, 4096, 4096>>, "float32", "absent"),
      Tensor(<<1, 4>>, "int8", "set"),
      Tensor(<<-1, 4>>, "uint8", "set") }

OutputTensors ==
    { Tensor(<<1, 4>>, "float32", "absent"),
      Tensor(<<1, 1024, 1024>>, "int8", "set") }

\* file sizes in bytes: around the 20 MB, 50 MB and 100 MB thresholds
FileSizes == { 131072, 25 * MiB, 50 * MiB + 1024, 60 * MiB, 120 * MiB }

\* input lists: one tensor followed by copies of another; one, two or MaxInputs
\* inputs
InputLists ==
    { [i \in 1..n |-> IF i = 1 THEN t1 ELSE t2] :
        n \in {1, 2, MaxInputs}, t1 \in InputTensors, t2 \in InputTensors }

LoadableModels ==
    { [exists |-> TRUE, loads |-> TRUE, size_bytes |-> s, input_details |-> ins,
       output_details |-> <<out>>, ops |-> o] :
        s \in FileSizes, ins \in InputLists, out \in OutputTensors,
        o \in {"builtin", "flex", "unreadable"} }

NoDetails == <<>>

BrokenModels ==
    { [exists |-> e, loads |-> FALSE, size_bytes |-> s, input_details |-> NoDetails,
       output_details |-> NoDetails, ops |-> "builtin"] :
        e \in BOOLEAN, s \in FileSizes }

IdleFile ==
    [exists |-> FALSE, loads |-> FALSE, size_bytes |-> 0, input_details |-> NoDetails,
     output_details |-> NoDetails, ops |-> "builtin"]

(***************************************************************************)
(* main() of model_validator.py                                            *)
(***************************************************************************)
InitValidator ==
    /\ model_file \in LoadableModels \cup BrokenModels
    /\ args \in [test : BOOLEAN, json : BOOLEAN]
    /\ test_outcome \in (IF args.test THEN TestOutcomes ELSE {"passes"})
    /\ validation_results = NewResults
    /\ printed_score = NoValue
    /\ v_pc = "start"
    /\ exit_code = NoValue

IdleValidator ==
    /\ model_file = IdleFile
    /\ args = [test |-> FALSE, json |-> FALSE]
    /\ test_outcome = "passes"
    /\ validation_results = NewResults
    /\ printed_score = NoValue
    /\ v_pc = "idle"
    /\ exit_code = NoValue

\* results = validator.validate(); an exception out of validate() ends the
\* process with a traceback and exit status 1
MainValidate ==
    /\ v_pc = "start"
    /\ LET v == validate(model_file, validation_results)
       IN  /\ validation_results' = v.results
           /\ printed_score' = IF v.outcome = "returned" /\ v.results.valid
                               THEN RawScore(v.results) ELSE NoValue
           /\ v_pc' = IF v.outcome = "raised" THEN "crashed" ELSE "validated"
           /\ exit_code' = IF v.outcome = "raised" THEN 1 ELSE NoValue
    /\ UNCHANGED <<model_file, args, test_outcome>>

\* if args.test and results['valid']: validator.test_inference()
MainTestInference ==
    /\ v_pc = "validated"
    /\ args.test /\ validation_results.valid
    /\ validation_results' = test_inference(validation_results, test_outcome)
    /\ v_pc' = "tested"
    /\ UNCHANGED <<model_file, args, test_outcome, printed_score, exit_code>>

\* print_summary() or json.dumps(results), then sys.exit(0 if results['valid'] else 1)
MainExit ==
    /\ \/ v_pc = "tested"
       \/ v_pc = "validated" /\ ~(args.test /\ validation_results.valid)
    /\ exit_code' = IF validation_results.valid THEN 0 ELSE 1
    /\ v_pc' = "exited"
    /\ UNCHANGED <<model_file, args, test_outcome, validation_results, printed_score>>

(***************************************************************************)
(* Two validator runs, on model_file and on other_file, to compare the     *)
(* scores the validator stores for two models.                             *)
(***************************************************************************)
PairInputs == 2

PairTensors ==
    { Tensor(<<1, 4>>, "float32", "absent"),
      Tensor(<<-1, 4>>, "float32", "absent"),
      Tensor(<<1, 4096, 4096>>, "float32", "absent"),
      Tensor(<<1, 4>>, "int8", "set") }

PairModels ==
    { [exists |-> TRUE, loads |-> TRUE, size_bytes |-> s,
       input_details |-> [i \in 1..n |-> t],
       output_details |-> <<Tensor(<<1, 4>>, "float32", "absent")>>, ops |-> o] :
        s \in {131072, 25 * MiB, 60 * MiB}, n \in 1..PairInputs, t \in PairTensors,
        o \in {"builtin", "flex"} }

IdlePair ==
    /\ other_file = IdleFile
    /\ other_results = NewResults
    /\ other_pc = "idle"

\* validate() of the validator made for other_file
OtherValidate ==
    /\ other_pc = "start"
    /\ LET v == validate(other_file, other_results)
       IN  /\ other_results' = v.results
           /\ other_pc' = IF v.outcome = "raised" THEN "crashed" ELSE "validated"
    /\ UNCHANGED other_file

(***************************************************************************)
(* bbox_batch_segmentation.py                                              *)
(* Images that exist in images_dir open; what can raise inside the try     *)
(* block is the inference call (process_batch) and the saving of a mask.   *)
(***************************************************************************)
MaxImages == 3
MaxBatchSize == 2

Min(a, b) == IF a <= b THEN a ELSE b

\* the image names a boxes file may hold, in key order
ImageNames ==
    <<[stem |-> "a", ext |-> ".jpg"], [stem |-> "b", ext |-> ".jpeg"],
      [stem |-> "c", ext |-> ".png"], [stem |-> "d", ext |-> ".jpg"],
      [stem |-> "e", ext |-> ".jpg"]>>

BoxCounts == {0, 1, 2}

BoxesFiles ==
    UNION { [1..n -> BOOLEAN \X BoxCounts] : n \in 0..MaxImages }

\* the entry of the boxes file for the k-th image: whether the image exists in
\* images_dir and how many boxes it lists
FileEntry(k, e) ==
    [stem |-> ImageNames[k].stem, ext |-> ImageNames[k].ext, exists |-> e[1], boxes |-> e[2]]

NameOf(e) == e.stem \o e.ext

\* name.replace('.jpg', '.png').replace('.jpeg', '.png')
OutputName(e) == e.stem \o (IF e.ext \in {".jpg", ".jpeg"} THEN ".png" ELSE e.ext)

\* f"{base_name}_obj{i}.png"
ObjectName(e, i) == e.stem \o "_obj" \o ToString(i) \o ".png"

\* image_names[i:i+batch_size]
BatchSlice(names, i, bs) == SubSeq(names, i + 1, Min(i + bs, Len(names)))

\* the loading loop with every listed image loaded, none skipped as missing
Mut_LoadImages_NoSkip(names) == names

\* the loading loop of a batch: the images that exist, each with its boxes
LoadImages(names) == SelectSeq(names, LAMBDA e : e.exists)

\* the last line of the try block of a batch: on to the next value of range()
NextStart(i, bs) == i + bs

\* the except clause retrying the same batch
Mut_AfterError_Retry(i, bs) == i

\* the except clause: the error is printed, then continue
AfterError(i, bs) == NextStart(i, bs)

\* process_batch: one mask tensor per image given, with one object per box
process_batch(images) ==
    [t \in 1..Len(images) |-> [image |-> NameOf(images[t]), objects |-> images[t].boxes]]

\* save_masks writing one file per object whatever the number of objects
Mut_save_masks_AlwaysPerObject(masks, name) ==
    [o \in 1..masks.objects |->
        [file |-> ObjectName(name, o - 1), image |-> masks.image, obj |-> o - 1]]

\* save_masks: the files written, in order, each with the mask written to it
save_masks(masks, name) ==
    IF masks.objects = 1
    THEN <<[file |-> OutputName(name), image |-> masks.image, obj |-> 0]>>
    ELSE [o \in 1..masks.objects |->
            [file |-> ObjectName(name, o - 1), image |-> masks.image, obj |-> o - 1]]

RECURSIVE WriteAll(_, _)
\* the directory after the writes ws, a later write replacing an earlier one
WriteAll(dir, ws) ==
    IF ws = <<>> THEN dir
    ELSE WriteAll((Head(ws).file :> [image |-> Head(ws).image, obj |-> Head(ws).obj]) @@ dir,
                  Tail(ws))

Event(ev, batch, file, image) == [ev |-> ev, batch |-> batch, file |-> file, image |-> image]

WriteEvents(batch, ws) ==
    [k \in 1..Len(ws) |-> Event("write", batch, ws[k].file, ws[k].image)]

EmptyDir == [f \in {} |-> 0]

InitBatch ==
    /\ \E f \in BoxesFiles : boxes_file = [k \in 1..Len(f) |-> FileEntry(k, f[k])]
    /\ batch_size \in 1..MaxBatchSize
    /\ b_i = 0
    /\ batch_names = <<>>
    /\ batch_images = <<>>
    /\ batch_masks = <<>>
    /\ b_j = 0
    /\ output_dir = EmptyDir
    /\ b_log = <<>>
    /\ b_pc = "loop"

IdleBatch ==
    /\ boxes_file = <<>>
    /\ batch_size = 1
    /\ b_i = 0
    /\ batch_names = <<>>
    /\ batch_images = <<>>
    /\ batch_masks = <<>>
    /\ b_j = 0
    /\ output_dir = EmptyDir
    /\ b_log = <<>>
    /\ b_pc = "idle"

\* the head of an iteration: slice the names, load the images that exist; a batch
\* with no image is skipped
LoadBatch ==
    /\ b_pc = "loop" /\ b_i < Len(boxes_file)
    /\ batch_names' = BatchSlice(boxes_file, b_i, batch_size)
    /\ batch_images' = LoadImages(batch_names')
    /\ IF batch_images' = <<>>
       THEN b_i' = NextStart(b_i, batch_size) /\ b_pc' = "loop"
       ELSE b_i' = b_i /\ b_pc' = "process"
    /\ UNCHANGED <<boxes_file, batch_size, batch_masks, b_j, output_dir, b_log>>

\* batch_masks = process_batch(...) returns
ProcessBatchReturns ==
    /\ b_pc = "process"
    /\ batch_masks' = process_batch(batch_images)
    /\ b_log' = Append(b_log, Event("infer", b_i, "", ""))
    /\ b_j' = 0
    /\ b_pc' = "save"
    /\ UNCHANGED <<boxes_file, batch_size, b_i, batch_names, batch_images, output_dir>>

\* process_batch(...) raises: the except clause prints the error and continues
ProcessBatchRaises ==
    /\ b_pc = "process"
    /\ b_log' = b_log \o <<Event("infer", b_i, "", ""), Event("error", b_i, "", "")>>
    /\ b_i' = AfterError(b_i, batch_size)
    /\ b_pc' = "loop"
    /\ UNCHANGED <<boxes_file, batch_size, batch_names, batch_images, batch_masks, b_j,
                   output_dir>>

ZipLen == Min(Len(batch_names), Len(batch_masks))

\* one turn of the loop over zip(batch_names, batch_masks): save_masks returns;
\* after the last pair the batch is over
SaveMasksReturns ==
    /\ b_pc = "save" /\ b_j < ZipLen
    /\ LET ws == save_masks(batch_masks[b_j + 1], batch_names[b_j + 1])
       IN  /\ output_dir' = WriteAll(output_dir, ws)
           /\ b_log' = b_log \o WriteEvents(b_i, ws)
    /\ b_j' = b_j + 1
    /\ IF b_j' >= ZipLen
       THEN b_i' = NextStart(b_i, batch_size) /\ b_pc' = "loop"
       ELSE b_i' = b_i /\ b_pc' = "save"
    /\ UNCHANGED <<boxes_file, batch_size, batch_names, batch_images, batch_masks>>

\* save_masks raises at one of its writes, the earlier ones done: the except clause
\* prints the error and continues with the next batch
SaveMasksRaises ==
    /\ b_pc = "save" /\ b_j < ZipLen
    /\ LET ws == save_masks(batch_masks[b_j + 1], batch_names[b_j + 1])
       IN  \E n \in 0..(Len(ws) - 1) :
               /\ output_dir' = WriteAll(output_dir, SubSeq(ws, 1, n))
               /\ b_log' = b_log \o WriteEvents(b_i, SubSeq(ws, 1, n))
                                 \o <<Event("error", b_i, "", "")>>
    /\ b_i' = AfterError(b_i, batch_size)
    /\ b_pc' = "loop"
    /\ UNCHANGED <<boxes_file, batch_size, batch_names, batch_images, batch_masks, b_j>>

\* the loop is over: print "Done! ..."
BatchDone ==
    /\ b_pc = "loop" /\ b_i >= Len(boxes_file)
    /\ b_log' = Append(b_log, Event("done", b_i, "", ""))
    /\ b_pc' = "done"
    /\ UNCHANGED <<boxes_file, batch_size, b_i, batch_names, batch_images, batch_masks,
                   b_j, output_dir>>

(***************************************************************************)
(* interactive_segmentation.py                                             *)
(* The model is a deterministic function of its inputs: a mask it returns  *)
(* is written as the record of the inputs it was computed from.            *)
(***************************************************************************)
MaxClicks == 3
MaxResets == 1

Images == { [name |-> "img1", size |-> <<4, 4>>], [name |-> "img2", size |-> <<8, 6>>] }

InitialBoxes == { <<0, 0, 2, 2>>, <<1, 1, 3, 3>> }

\* x, y of a mouse event
Coords == { <<1, 1>>, <<2, 3>> }

NoMask == [prompt |-> "none"]

NoEmbeddings == [of_image |-> "none"]

NoSizes == <<>>

\* outputs.pred_masks[:, :, best_mask_idx] of the model called with a box
BoxMask(image, box) ==
    [prompt |-> "box", image |-> image.name, box |-> box, points |-> <<>>,
     labels |-> <<>>, hint |-> NoMask]

\* outputs.pred_masks of the model called with points, labels, a mask hint and
\* image embeddings
RefinedMask(points, labels, hint, embeddings) ==
    [prompt |-> "points", image |-> embeddings.of_image, box |-> <<>>, points |-> points,
     labels |-> labels, hint |-> hint]

\* outputs.image_embeddings
Embeddings(image) == [of_image |-> image.name]

\* processor.post_process_masks(mask.cpu(), original_sizes, binarize=True)[0][0, 0]
post_process_masks(mask, sizes) == [binarized |-> mask, size |-> sizes]

Call(kind, points, labels, input_masks, embeddings, output) ==
    [kind |-> kind, points |-> points, labels |-> labels, input_masks |-> input_masks,
     image_embeddings |-> embeddings, output |-> output]

\* InteractiveSegmenter.__init__ up to the call of _initialize_segmentation
NewSegmenter(image, box) ==
    [image |-> image, initial_box |-> box, positive_points |-> <<>>,
     negative_points |-> <<>>, current_mask |-> NoMask, image_embeddings |-> NoEmbeddings,
     original_sizes |-> NoSizes, display_mask |-> NoMask]

\* _initialize_segmentation: [self, calls], the object after it and the inference
\* calls it made
_initialize_segmentation(self) ==
    LET mask  == BoxMask(self.image, self.initial_box)
        emb   == Embeddings(self.image)
        sizes == <<self.image.size>>
    IN  [self  |-> [self EXCEPT !.current_mask = mask,
                                !.image_embeddings = emb,
                                !.original_sizes = sizes,
                                !.display_mask = post_process_masks(mask, sizes)],
         calls |-> <<Call("box", <<>>, <<>>, NoMask, NoEmbeddings, mask)>>]

Ones(n) == [k \in 1..n |-> 1]

Zeros(n) == [k \in 1..n |-> 0]

\* add_point sending only the new point to the model
Mut_add_point_OnlyNewPoint(self, x, y, is_positive) ==
    LET s1 == IF is_positive
              THEN [self EXCEPT !.positive_points = Append(@, <<x, y>>)]
              ELSE [self EXCEPT !.negative_points = Append(@, <<x, y>>)]
        mask == RefinedMask(<<<<x, y>>>>, <<IF is_positive THEN 1 ELSE 0>>,
                            s1.current_mask, s1.image_embeddings)
    IN  [self  |-> [s1 EXCEPT !.current_mask = mask,
                              !.display_mask = post_process_masks(mask, s1.original_sizes)],
         calls |-> <<Call("points", <<<<x, y>>>>, <<IF is_positive THEN 1 ELSE 0>>,
                          s1.current_mask, s1.image_embeddings, mask)>>]

\* add_point putting the new point in front of its list
Mut_add_point_Prepend(self, x, y, is_positive) ==
    LET s1 == IF is_positive
              THEN [self EXCEPT !.positive_points = <<<<x, y>>>> \o @]
              ELSE [self EXCEPT !.negative_points = <<<<x, y>>>> \o @]
        all_points == s1.positive_points \o s1.negative_points
        all_labels == Ones(Len(s1.positive_points)) \o Zeros(Len(s1.negative_points))
        mask == RefinedMask(all_points, all_labels, s1.current_mask, s1.image_embeddings)
    IN  [self  |-> [s1 EXCEPT !.current_mask = mask,
                              !.display_mask = post_process_masks(mask, s1.original_sizes)],
         calls |-> <<Call("points", all_points, all_labels, s1.current_mask,
                          s1.image_embeddings, mask)>>]

\* add_point calling the model without the stored image embeddings
Mut_add_point_NoEmbeddings(self, x, y, is_positive) ==
    LET s1 == IF is_positive
              THEN [self EXCEPT !.positive_points = Append(@, <<x, y>>)]
              ELSE [self EXCEPT !.negative_points = Append(@, <<x, y>>)]
        all_points == s1.positive_points \o s1.negative_points
        all_labels == Ones(Len(s1.positive_points)) \o Zeros(Len(s1.negative_points))
        mask == RefinedMask(all_points, all_labels, s1.current_mask, NoEmbeddings)
    IN  [self  |-> [s1 EXCEPT !.current_mask = mask,
                              !.display_mask = post_process_masks(mask, s1.original_sizes)],
         calls |-> <<Call("points", all_points, all_labels, s1.current_mask,
                          NoEmbeddings, mask)>>]

\* add_point: [self, calls]
add_point(self, x, y, is_positive) ==
    LET s1 == IF is_positive
              THEN [self EXCEPT !.positive_points = Append(@, <<x, y>>)]
              ELSE [self EXCEPT !.negative_points = Append(@, <<x, y>>)]
        all_points == s1.positive_points \o s1.negative_points
        all_labels == Ones(Len(s1.positive_points)) \o Zeros(Len(s1.negative_points))
        mask == RefinedMask(all_points, all_labels, s1.current_mask, s1.image_embeddings)
    IN  IF all_points = <<>> THEN [self |-> s1, calls |-> <<>>]
        ELSE [self  |-> [s1 EXCEPT !.current_mask = mask,
                                   !.display_mask = post_process_masks(mask, s1.original_sizes)],
              calls |-> <<Call("points", all_points, all_labels, s1.current_mask,
                               s1.image_embeddings, mask)>>]

\* reset clearing the positive points only
Mut_reset_KeepNegative(self) ==
    _initialize_segmentation([self EXCEPT !.positive_points = <<>>])

\* reset clearing the points without a new initial segmentation
Mut_reset_KeepMask(self) ==
    [self  |-> [self EXCEPT !.positive_points = <<>>, !.negative_points = <<>>],
     calls |-> <<>>]

\* reset: [self, calls]
reset(self) ==
    _initialize_segmentation(
        [self EXCEPT !.positive_points = <<>>, !.negative_points = <<>>])

\* get_visualization: the image with the mask overlay and the points drawn
get_visualization(self) ==
    [image |-> self.image.name, overlay |-> self.display_mask,
     positive |-> self.positive_points, negative |-> self.negative_points]

\* save_mask writing the mask before post-processing
Mut_save_mask_RawMask(self) == [png_of |-> self.current_mask]

\* save_mask: (display_mask * 255).astype(np.uint8) written to output_path
save_mask(self) == [png_of |-> self.display_mask]

NoFile == [png_of |-> NoMask]

NoWindow == [image |-> "none"]

Clicks == Cardinality({k \in 1..Len(model_calls) : model_calls[k].kind = "points"})

Resets == Cardinality({k \in 2..Len(model_calls) : model_calls[k].kind = "box"})

\* main up to the main loop: the segmenter is constructed and first shown
InitSegmenter ==
    /\ \E image \in Images, box \in InitialBoxes :
          LET made == _initialize_segmentation(NewSegmenter(image, box))
          IN  /\ segmenter = made.self
              /\ model_calls = made.calls
              /\ window = get_visualization(made.self)
    /\ mask_file = NoFile
    /\ click_log = <<>>
    /\ s_last = "init"
    /\ s_pc = "running"

IdleSegmenter ==
    /\ segmenter = NewSegmenter([name |-> "none", size |-> <<0, 0>>], <<0, 0, 0, 0>>)
    /\ model_calls = <<>>
    /\ window = NoWindow
    /\ mask_file = NoFile
    /\ click_log = <<>>
    /\ s_last = "idle"
    /\ s_pc = "idle"

\* mouse_callback for a left or right button press
MouseClick(x, y, is_positive) ==
    /\ s_pc = "running" /\ Clicks < MaxClicks
    /\ LET done == add_point(segmenter, x, y, is_positive)
       IN  /\ segmenter' = done.self
           /\ model_calls' = model_calls \o done.calls
           /\ window' = get_visualization(done.self)
    /\ click_log' = Append(click_log, [point |-> <<x, y>>, positive |-> is_positive])
    /\ s_last' = "click"
    /\ UNCHANGED <<mask_file, s_pc>>

LeftClick == \E c \in Coords : MouseClick(c[1], c[2], TRUE)

RightClick == \E c \in Coords : MouseClick(c[1], c[2], FALSE)

\* key 'r'
KeyReset ==
    /\ s_pc = "running" /\ Resets < MaxResets
    /\ LET done == reset(segmenter)
       IN  /\ segmenter' = done.self
           /\ model_calls' = model_calls \o done.calls
           /\ window' = get_visualization(done.self)
    /\ click_log' = <<>>
    /\ s_last' = "reset"
    /\ UNCHANGED <<mask_file, s_pc>>

\* key 's'
KeySave ==
    /\ s_pc = "running"
    /\ mask_file' = save_mask(segmenter)
    /\ s_last' = "save"
    /\ UNCHANGED <<segmenter, model_calls, window, click_log, s_pc>>

\* key 'q'
KeyQuit ==
    /\ s_pc = "running"
    /\ s_pc' = "quit"
    /\ s_last' = "quit"
    /\ UNCHANGED <<segmenter, model_calls, window, mask_file, click_log>>

(***************************************************************************)
(* video_object_tracker.py: track_video                                    *)
(* The propagation routine is the model's own: which frames it yields is   *)
(* an input, drawn frame by frame.                                         *)
(***************************************************************************)
MaxObjects == 2
MaxRefinements == 2
MaxYields == 2

ObjectIds == {1, 2}

Frames == {0, 1}

\* an entry of prompts["objects"]: keys tells which of "box" and "points" it has
ObjectEntries == [id : ObjectIds, frame : {0}, keys : {"box", "points", "both", "none"}]

RefinementEntries == [object_id : ObjectIds, frame : {1}]

NoRefinements == <<[object_id |-> 0, frame |-> -1]>>

PromptFiles ==
    [objects : UNION {[1..n -> ObjectEntries] : n \in 0..MaxObjects},
     refinements : {NoRefinements} \cup UNION {[1..n -> RefinementEntries] : n \in 0..MaxRefinements}]

\* "refinements" in prompts
HasRefinements(p) == p.refinements # NoRefinements

\* video_processor.add_inputs_to_inference_session: the prompt is recorded, and
\* an object id the session does not know yet is added to its object ids
add_inputs_to_inference_session(session, frame_idx, obj_id, kind, source, index) ==
    [inputs  |-> Append(session.inputs,
                        [frame_idx |-> frame_idx, obj_id |-> obj_id, kind |-> kind,
                         source |-> source, index |-> index]),
     obj_ids |-> IF Contains(session.obj_ids, obj_id) THEN session.obj_ids
                 ELSE Append(session.obj_ids, obj_id)]

\* the body of the loop over prompts["objects"] registering every entry, with
\* its points when it has no box
Mut_AddObject_Always(session, obj, index) ==
    add_inputs_to_inference_session(session, obj.frame, obj.id,
        IF obj.keys \in {"box", "both"} THEN "box" ELSE "points", "objects", index)

\* the body of the loop over prompts["objects"]
AddObject(session, obj, index) ==
    IF obj.keys \in {"box", "both"}
    THEN add_inputs_to_inference_session(session, obj.frame, obj.id, "box", "objects", index)
    ELSE IF obj.keys = "points"
    THEN add_inputs_to_inference_session(session, obj.frame, obj.id, "points", "objects", index)
    ELSE session

\* the body of the loop over prompts["refinements"]
AddRefinement(session, refine, index) ==
    add_inputs_to_inference_session(session, refine.frame, refine.object_id, "points",
                                    "refinements", index)

\* frame_masks: one mask per object id of the session, the i-th of the masks of
\* this yield
FrameMasks(session, frame_idx, yield_no) ==
    [obj_id \in {session.obj_ids[i] : i \in 1..Len(session.obj_ids)} |->
        [frame |-> frame_idx, yield |-> yield_no,
         index |-> CHOOSE i \in 1..Len(session.obj_ids) : session.obj_ids[i] = obj_id]]

\* video_segments[frame_idx] = frame_masks, keeping the entry a frame index
\* already has
Mut_StoreFrame_KeepFirst(segments, frame_idx, frame_masks) ==
    segments @@ (frame_idx :> frame_masks)

\* video_segments[frame_idx] = frame_masks
StoreFrame(segments, frame_idx, frame_masks) ==
    (frame_idx :> frame_masks) @@ segments

NoSegments == [f \in {} |-> 0]

InitTracker ==
    /\ prompts \in PromptFiles
    /\ visualize \in BOOLEAN
    /\ inference_session = [inputs |-> <<>>, obj_ids |-> <<>>]
    /\ t_k = 0
    /\ yields = <<>>
    /\ video_segments = NoSegments
    /\ frames_written = <<>>
    /\ t_pc = "objects"

IdleTracker ==
    /\ prompts = [objects |-> <<>>, refinements |-> NoRefinements]
    /\ visualize = FALSE
    /\ inference_session = [inputs |-> <<>>, obj_ids |-> <<>>]
    /\ t_k = 0
    /\ yields = <<>>
    /\ video_segments = NoSegments
    /\ frames_written = <<>>
    /\ t_pc = "idle"

\* one turn of "for obj in prompts['objects']"
RegisterObject ==
    /\ t_pc = "objects" /\ t_k < Len(prompts.objects)
    /\ inference_session' = AddObject(inference_session, prompts.objects[t_k + 1], t_k + 1)
    /\ t_k' = t_k + 1
    /\ UNCHANGED <<prompts, visualize, yields, video_segments, frames_written, t_pc>>

\* the loop over the objects is over: on to the refinements, if the file has any
ObjectsDone ==
    /\ t_pc = "objects" /\ t_k = Len(prompts.objects)
    /\ t_k' = 0
    /\ t_pc' = IF HasRefinements(prompts) THEN "refinements" ELSE "propagate"
    /\ UNCHANGED <<prompts, visualize, inference_session, yields, video_segments,
                   frames_written>>

\* one turn of "for refine in prompts['refinements']"
RegisterRefinement ==
    /\ t_pc = "refinements" /\ t_k < Len(prompts.refinements)
    /\ inference_session' =
          AddRefinement(inference_session, prompts.refinements[t_k + 1], t_k + 1)
    /\ t_k' = t_k + 1
    /\ UNCHANGED <<prompts, visualize, yields, video_segments, frames_written, t_pc>>

RefinementsDone ==
    /\ t_pc = "refinements" /\ t_k = Len(prompts.refinements)
    /\ t_k' = 0
    /\ t_pc' = "propagate"
    /\ UNCHANGED <<prompts, visualize, inference_session, yields, video_segments,
                   frames_written>>

\* one turn of the loop over propagate_in_video_iterator: the iterator yields the
\* output of a frame, its masks are stored under its frame index
ConsumeFrame ==
    /\ t_pc = "propagate" /\ Len(yields) < MaxYields
    /\ \E frame_idx \in Frames :
          /\ yields' = Append(yields, frame_idx)
          /\ video_segments' =
                StoreFrame(video_segments, frame_idx,
                           FrameMasks(inference_session, frame_idx, Len(yields) + 1))
          /\ frames_written' = IF visualize THEN Append(frames_written, frame_idx)
                               ELSE frames_written
    /\ UNCHANGED <<prompts, visualize, inference_session, t_k, t_pc>>

\* the iterator is exhausted: return video_segments
TrackReturn ==
    /\ t_pc = "propagate"
    /\ t_pc' = "returned"
    /\ UNCHANGED <<prompts, visualize, inference_session, t_k, yields, video_segments,
                   frames_written>>

(***************************************************************************)
(* Specifications: one per program.                                        *)
(***************************************************************************)
notValidator == <<pairVars, batchVars, segVars, trackVars>>
notBatch == <<validatorVars, pairVars, segVars, trackVars>>
notSegmenter == <<validatorVars, pairVars, batchVars, trackVars>>
notTracker == <<validatorVars, pairVars, batchVars, segVars>>

NextValidator ==
    \/ MainValidate /\ UNCHANGED notValidator
    \/ MainTestInference /\ UNCHANGED notValidator
    \/ MainExit /\ UNCHANGED notValidator

InitV == InitValidator /\ IdlePair /\ IdleBatch /\ IdleSegmenter /\ IdleTracker

SpecValidator == InitV /\ [][NextValidator]_vars

InitPair ==
    /\ model_file \in PairModels
    /\ args \in [test : {FALSE}, json : BOOLEAN]
    /\ test_outcome = "passes"
    /\ validation_results = NewResults
    /\ printed_score = NoValue
    /\ v_pc = "start"
    /\ exit_code = NoValue
    /\ other_file \in PairModels
    /\ other_results = NewResults
    /\ other_pc = "start"
    /\ IdleBatch
    /\ IdleSegmenter
    /\ IdleTracker

NextPair ==
    \/ MainValidate /\ UNCHANGED notValidator
    \/ MainExit /\ UNCHANGED notValidator
    \/ OtherValidate /\ UNCHANGED <<validatorVars, batchVars, segVars, trackVars>>

SpecScorePair == InitPair /\ [][NextPair]_vars

NextBatch ==
    \/ LoadBatch /\ UNCHANGED notBatch
    \/ ProcessBatchReturns /\ UNCHANGED notBatch
    \/ ProcessBatchRaises /\ UNCHANGED notBatch
    \/ SaveMasksReturns /\ UNCHANGED notBatch
    \/ SaveMasksRaises /\ UNCHANGED notBatch
    \/ BatchDone /\ UNCHANGED notBatch

InitB == InitBatch /\ IdleValidator /\ IdlePair /\ IdleSegmenter /\ IdleTracker

SpecBatch == InitB /\ [][NextBatch]_vars

NextSegmenter ==
    \/ LeftClick /\ UNCHANGED notSegmenter
    \/ RightClick /\ UNCHANGED notSegmenter
    \/ KeyReset /\ UNCHANGED notSegmenter
    \/ KeySave /\ UNCHANGED notSegmenter
    \/ KeyQuit /\ UNCHANGED notSegmenter

InitS == InitSegmenter /\ IdleValidator /\ IdlePair /\ IdleBatch /\ IdleTracker

SpecSegmenter == InitS /\ [][NextSegmenter]_vars

NextTracker ==
    \/ RegisterObject /\ UNCHANGED notTracker
    \/ ObjectsDone /\ UNCHANGED notTracker
    \/ RegisterRefinement /\ UNCHANGED notTracker
    \/ RefinementsDone /\ UNCHANGED notTracker
    \/ ConsumeFrame /\ UNCHANGED notTracker
    \/ TrackReturn /\ UNCHANGED notTracker

InitT == InitTracker /\ IdleValidator /\ IdlePair /\ IdleBatch /\ IdleSegmenter

SpecTracker == InitT /\ [][NextTracker]_vars

(***************************************************************************)
(* Properties of the validator.                                            *)
(***************************************************************************)
Score(r) == r.info["compatibility_score"]

\* C1: when validate() has completed on a model file that exists and loads, the
\* stored compatibility_score is max(0, 100 - 20*[not quantized] - (15 if size_mb
\* > 50, else 5 if size_mb > 20) - 10*[estimated_memory_mb > 50] - 5*(number of
\* warnings recorded so far)), an integer in 0..100.
C1_ScoreFormula ==
    (v_pc = "validated" /\ model_file.exists /\ model_file.loads) =>
        LET r == validation_results
            expected ==
                100 - (IF r.info["quantized"] THEN 0 ELSE 20)
                    - (IF r.info["size_mb"] > 5000 THEN 15
                       ELSE IF r.info["size_mb"] > 2000 THEN 5 ELSE 0)
                    - (IF r.info["estimated_memory_mb"] > 5000 THEN 10 ELSE 0)
                    - 5 * Len(r.warnings)
        IN  /\ Score(r) = (IF expected < 0 THEN 0 ELSE expected)
            /\ Score(r) \in 0..100

\* C1 witness: validate() completed on a loadable model whose deductions exceed
\* 100 points, so the floor at 0 applied
C1_Witness ==
    /\ v_pc = "validated" /\ model_file.exists /\ model_file.loads
    /\ Score(validation_results) = 0
    /\ 100 - 20 - 15 - 10 - 5 * Len(validation_results.warnings) < 0
    /\ printed_score < 0

\* C3: the process exits with code 1 exactly when validation failed (the file is
\* missing or does not load, results['valid'] False), and with code 0 otherwise.
C3_ExitCodeIffInvalid ==
    (exit_code # NoValue) =>
        /\ exit_code \in {0, 1}
        /\ (exit_code = 1) <=> ~validation_results.valid
        /\ (exit_code = 1) <=> (~model_file.exists \/ ~model_file.loads)

\* the warning conditions present in a model: large file size, non-quantized
\* tensors, an input with a dynamic -1 dimension, FlexDelegate operators, high
\* estimated memory
WarningConditions(m) ==
    (IF m.size_bytes > 50 * MiB THEN {"large_size"} ELSE {})
    \cup (IF ~IsQuantized(m) THEN {"not_quantized"} ELSE {})
    \cup (IF \E i \in 1..Len(m.input_details) : Contains(m.input_details[i].shape, -1)
          THEN {"dynamic_shape"} ELSE {})
    \cup (IF m.ops = "flex" THEN {"select_tf_ops"} ELSE {})
    \cup (IF TensorBytes(m.input_details) + TensorBytes(m.output_details) > 100 * MiB
          THEN {"high_memory"} ELSE {})

BothValidated == v_pc \in {"validated", "exited"} /\ other_pc = "validated"

\* C2 as stated: if every warning condition present in model_file (A) is present
\* in other_file (B), the score stored for B is at most the one stored for A.
C2_MonotoneInConditions ==
    (BothValidated /\ WarningConditions(model_file) \subseteq WarningConditions(other_file))
        => Score(other_results) <= Score(validation_results)

DynamicInputs(m) ==
    Cardinality({i \in 1..Len(m.input_details) : Contains(m.input_details[i].shape, -1)})

\* B is at least as bad as A in every quantity the validator scores
AtLeastAsBad(a, b) ==
    /\ a.size_bytes <= b.size_bytes
    /\ TensorBytes(a.input_details) + TensorBytes(a.output_details)
         <= TensorBytes(b.input_details) + TensorBytes(b.output_details)
    /\ DynamicInputs(a) <= DynamicInputs(b)
    /\ ~IsQuantized(a) => ~IsQuantized(b)
    /\ (a.ops # "builtin") => (b.ops # "builtin")

\* C2 amended: if B's file is at least as large as A's, B's estimated memory at
\* least A's, B has at least as many dynamic-shape inputs as A, B is not quantized
\* if A is not, and B draws the operator warning if A does, then the score stored
\* for B is at most the one stored for A.
C2_MonotoneInQuantities ==
    (BothValidated /\ AtLeastAsBad(model_file, other_file))
        => Score(other_results) <= Score(validation_results)

\* C2 witness: two validated models, B at least as bad as A in every quantity and
\* worse in some, with a strictly lower score
C2_Witness ==
    /\ BothValidated /\ AtLeastAsBad(model_file, other_file)
    /\ model_file # other_file
    /\ Score(other_results) < Score(validation_results)

(***************************************************************************)
(* Properties of the batch segmentation script.                            *)
(***************************************************************************)
EventsOf(kind) == {k \in 1..Len(b_log) : b_log[k].ev = kind}

InferenceCalls == Cardinality(EventsOf("infer"))

\* ceil(N / B)
CeilDiv(n, b) == (n + b - 1) \div b

\* the values i takes in range(0, total_images, batch_size)
BatchStarts == {i \in 0..Len(boxes_file) : i % batch_size = 0 /\ i < Len(boxes_file)}

\* the batches that list an image that exists in images_dir
BatchesWithImage ==
    {i \in BatchStarts :
        \E k \in (i + 1)..Min(i + batch_size, Len(boxes_file)) : boxes_file[k].exists}

\* C4 as stated: over the whole run exactly ceil(N/B) inference calls occur.
C4_CeilCalls ==
    (b_pc = "done") => InferenceCalls = CeilDiv(Len(boxes_file), batch_size)

\* C4 amended: over the whole run there is exactly one inference call for each of
\* the ceil(N/B) batches that lists at least one image existing in images_dir, and
\* none for a batch whose images are all missing.
C4_CallsPerNonEmptyBatch ==
    (b_pc = "done") =>
        /\ InferenceCalls = Cardinality(BatchesWithImage)
        /\ {b_log[k].batch : k \in EventsOf("infer")} = BatchesWithImage
        /\ InferenceCalls <= CeilDiv(Len(boxes_file), batch_size)

\* C4 witness: a finished run with two inference calls and a third batch skipped
\* because its images are missing
C4_Witness ==
    /\ b_pc = "done"
    /\ InferenceCalls = 2
    /\ CeilDiv(Len(boxes_file), batch_size) = 3

\* C5: when inference or mask saving of a batch raises, the error is logged right
\* there, the batch gets no second inference call and no further write, and the
\* later batches are still processed in order up to the Done message.
C5_SkipFailedBatch ==
    /\ \A p \in EventsOf("error") :
          /\ \E q \in 1..(p - 1) : b_log[q].ev = "infer" /\ b_log[q].batch = b_log[p].batch
          /\ \A q \in (p + 1)..Len(b_log) : b_log[q].batch > b_log[p].batch
    /\ \A p, q \in EventsOf("infer") : p < q => b_log[p].batch < b_log[q].batch
    /\ \A p \in EventsOf("error") : b_i > b_log[p].batch
    /\ (b_pc = "done") => {b_log[k].batch : k \in EventsOf("infer")} = BatchesWithImage
    /\ b_pc \in {"loop", "process", "save", "done"}
    /\ (b_pc = "done") \/ (ENABLED (LoadBatch \/ ProcessBatchReturns \/ ProcessBatchRaises
                                      \/ SaveMasksReturns \/ SaveMasksRaises \/ BatchDone))

\* C5 witness: a finished run in which a batch raised after its first write, and a
\* later batch was inferred and written
C5_Witness ==
    /\ b_pc = "done"
    /\ \E p \in EventsOf("error") :
          /\ b_log[p - 1].ev = "write"
          /\ \E q \in (p + 1)..Len(b_log) : b_log[q].ev = "write"

NoBatchError == EventsOf("error") = {}

Written(file, image, obj) ==
    /\ file \in DOMAIN output_dir
    /\ output_dir[file] = [image |-> image, obj |-> obj]

\* C6: in a run in which no batch raises, every listed image that exists in
\* images_dir has its mask output written: one file at its output path when it has
\* one object, one file per object otherwise.
C6_EveryExistingImageSaved ==
    (b_pc = "done" /\ NoBatchError) =>
        \A k \in 1..Len(boxes_file) :
            LET e == boxes_file[k]
            IN  e.exists =>
                    IF e.boxes = 1 THEN Written(OutputName(e), NameOf(e), 0)
                    ELSE \A o \in 0..(e.boxes - 1) : Written(ObjectName(e, o), NameOf(e), o)

(***************************************************************************)
(* Properties of the interactive segmenter.                                *)
(***************************************************************************)
PointsOf(log, positive) ==
    LET picked == SelectSeq(log, LAMBDA c : c.positive = positive)
    IN  [k \in 1..Len(picked) |-> picked[k].point]

LastCall == model_calls[Len(model_calls)]

\* the inference calls made by reset(): every call with a box but the first
ResetCalls == {k \in 2..Len(model_calls) : model_calls[k].kind = "box"}

C8_ResetRestoresInitialMask ==
    /\ (s_last = "reset") =>
          /\ segmenter.current_mask = model_calls[1].output
          /\ segmenter.current_mask = BoxMask(segmenter.image, segmenter.initial_box)
          /\ segmenter.display_mask =
                post_process_masks(model_calls[1].output, <<segmenter.image.size>>)
          /\ LastCall.kind = "box" /\ LastCall.output = model_calls[1].output
    /\ \A k \in ResetCalls :
          (k < Len(model_calls) /\ model_calls[k + 1].kind = "points") =>
              /\ model_calls[k + 1].input_masks = model_calls[1].output
              /\ Len(model_calls[k + 1].points) = 1

\* C8 witness: clicks, then a reset, then a click
C8_Witness ==
    \E k \in ResetCalls :
        /\ model_calls[k - 1].kind = "points"
        /\ k < Len(model_calls) /\ model_calls[k + 1].kind = "points"

\* C9: after a click, the last inference call is the one add_point made for it:
\* its points are the positive clicks since construction or the last reset in
\* click order, then the negative ones; its labels are a 1 for each positive and a
\* 0 for each negative point; its mask hint is the output of the inference
\* before it; current_mask is its output; and each click made exactly one call.
C9_AddPointResendsHistory ==
    (click_log # <<>>) =>
        /\ LastCall.kind = "points"
        /\ LastCall.points = PointsOf(click_log, TRUE) \o PointsOf(click_log, FALSE)
        /\ Len(LastCall.labels) = Len(LastCall.points)
        /\ \A k \in 1..Len(LastCall.labels) :
              LastCall.labels[k] = (IF k <= Len(PointsOf(click_log, TRUE)) THEN 1 ELSE 0)
        /\ LastCall.input_masks = model_calls[Len(model_calls) - 1].output
        /\ segmenter.current_mask = LastCall.output
        /\ \A k \in 1..Len(click_log) :
              model_calls[Len(model_calls) - Len(click_log) + k].kind = "points"
        /\ model_calls[Len(model_calls) - Len(click_log)].kind = "box"

\* C9 witness: after a reset, a negative, a positive and a negative click
C9_Witness ==
    /\ ResetCalls # {}
    /\ Len(click_log) = 3
    /\ ~click_log[1].positive /\ click_log[2].positive /\ ~click_log[3].positive
    /\ click_log[1].point # click_log[3].point

(***************************************************************************)
(* Properties of track_video.                                              *)
(***************************************************************************)
\* the entries of prompts["objects"] as registrations, in file order
RECURSIVE ObjectRegistrations(_, _, _)
ObjectRegistrations(objects, k, only_with_prompt) ==
    IF k > Len(objects) THEN <<>>
    ELSE (IF only_with_prompt /\ objects[k].keys = "none" THEN <<>>
          ELSE <<[obj_id |-> objects[k].id, source |-> "objects", index |-> k]>>)
         \o ObjectRegistrations(objects, k + 1, only_with_prompt)

RefinementRegistrations(p) ==
    IF HasRefinements(p)
    THEN [k \in 1..Len(p.refinements) |->
            [obj_id |-> p.refinements[k].object_id, source |-> "refinements", index |-> k]]
    ELSE <<>>

\* what the session has registered so far: object id, list and place in the list
Registered ==
    [k \in 1..Len(inference_session.inputs) |->
        [obj_id |-> inference_session.inputs[k].obj_id,
         source |-> inference_session.inputs[k].source,
         index  |-> inference_session.inputs[k].index]]

IsPrefix(a, b) == Len(a) <= Len(b) /\ a = SubSeq(b, 1, Len(a))

\* the registrations are made in the order of `expected`, and are all made
\* before the first propagation result is consumed, none after
RegisteredInOrder(expected) ==
    /\ IsPrefix(Registered, expected)
    /\ (t_pc \in {"propagate", "returned"}) => Registered = expected
    /\ (yields # <<>>) => Registered = expected

\* C10 as stated: every entry of prompts["objects"] is registered, in file
\* order, before any refinement; every refinement in file order; all before the
\* first propagation result is consumed, none after.
C10_EveryEntryRegistered ==
    RegisteredInOrder(ObjectRegistrations(prompts.objects, 1, FALSE)
                      \o RefinementRegistrations(prompts))

\* C10 amended: every entry of prompts["objects"] that has a "box" or a "points"
\* key is registered, in file order, before any refinement (an entry with neither
\* is skipped); every refinement in file order; all before the first propagation
\* result is consumed, none after.
C10_PromptedEntriesRegistered ==
    RegisteredInOrder(ObjectRegistrations(prompts.objects, 1, TRUE)
                      \o RefinementRegistrations(prompts))

\* C10 witness: two objects and two refinements registered, propagation consumed
C10_Witness ==
    /\ Len(yields) >= 1
    /\ Len(inference_session.inputs) = 4
    /\ inference_session.inputs[2].source = "objects"
    /\ inference_session.inputs[2].kind = "points"
    /\ inference_session.inputs[3].source = "refinements"

\* the object ids of the inference session, as a set
SessionObjects == {inference_session.obj_ids[i] : i \in 1..Len(inference_session.obj_ids)}

\* the yields of the propagation iterator that carried frame index f
YieldsOf(f) == {k \in 1..Len(yields) : yields[k] = f}

\* C11: the mapping track_video returns has as keys exactly the frame indices the
\* propagation iterator yielded; the value of a key holds one mask for each
\* object id of the inference session and for nothing else, the mask at that
\* object's position among the masks of the yield; and a frame index yielded more
\* than once holds the masks of its last yield.
C11_SegmentsAreLastYields ==
    t_pc = "returned" =>
        /\ DOMAIN video_segments = {yields[k] : k \in 1..Len(yields)}
        /\ \A f \in DOMAIN video_segments :
              /\ DOMAIN video_segments[f] = SessionObjects
              /\ \A o \in SessionObjects :
                    /\ video_segments[f][o].frame = f
                    /\ video_segments[f][o].yield = CHOOSE k \in YieldsOf(f) :
                                                        \A j \in YieldsOf(f) : j <= k
                    /\ inference_session.obj_ids[video_segments[f][o].index] = o

\* track_video has returned after the iterator yielded one frame index twice,
\* with two objects in the session
C11_Witness ==
    /\ t_pc = "returned"
    /\ Cardinality(SessionObjects) >= 2
    /\ \E f \in DOMAIN video_segments : Cardinality(YieldsOf(f)) >= 2

\* C12: every mask file in the output directory that carries the output name of a
\* listed image X holds a mask computed from X (and so from the boxes listed for
\* X), whichever images of a batch are missing; no file carries the output name
\* of an image that does not exist in images_dir.
C12_MasksUnderOwnName ==
    \A file \in DOMAIN output_dir :
        \A k \in 1..Len(boxes_file) :
            LET e == boxes_file[k]
            IN  (file = OutputName(e) \/ \E o \in BoxCounts : file = ObjectName(e, o)) =>
                    /\ e.exists
                    /\ output_dir[file].image = NameOf(e)

\* C13: positive_points holds exactly the left clicks made since the construction
\* or the last reset and negative_points exactly the right clicks, each list in
\* the order the clicks were made; so the two lengths add up to the number of
\* clicks since the construction or the last reset.
C13_ClicksSplitByButton ==
    /\ segmenter.positive_points = PointsOf(click_log, TRUE)
    /\ segmenter.negative_points = PointsOf(click_log, FALSE)
    /\ Len(segmenter.positive_points) + Len(segmenter.negative_points) = Len(click_log)

\* two left clicks at different places and a right click have been made
C13_Witness ==
    /\ s_last = "click"
    /\ Len(segmenter.positive_points) = 2
    /\ segmenter.positive_points[1] # segmenter.positive_points[2]
    /\ Len(segmenter.negative_points) = 1
    /\ click_log[2].positive = FALSE

\* validate() has returned its result to main
ValidateReturned == v_pc \in {"validated", "tested", "exited"}

\* C14: in every result validate() returns, valid is False exactly when the errors
\* list is non-empty; for a missing model file the result has exactly one error,
\* no warning and an empty info; when loading fails it has exactly one error and
\* info holds size_mb and nothing else; so no compatibility_score is present in
\* either case.
C14_FailureResults ==
    ValidateReturned =>
        /\ (~validation_results.valid) <=> (Len(validation_results.errors) > 0)
        /\ (~model_file.exists) =>
              /\ validation_results.errors = <<"model_file_not_found">>
              /\ validation_results.warnings = <<>>
              /\ DOMAIN validation_results.info = {}
        /\ (model_file.exists /\ ~model_file.loads) =>
              /\ validation_results.errors = <<"failed_to_load_model">>
              /\ DOMAIN validation_results.info = {"size_mb"}
        /\ (~validation_results.valid) => ~HasInfo(validation_results, "compatibility_score")

\* validate() has returned for a file of more than 100 MB that failed to load
C14_Witness ==
    /\ v_pc = "validated"
    /\ model_file.exists /\ ~model_file.loads
    /\ validation_results.warnings = <<"size_large">>
    /\ Len(validation_results.errors) = 1

\* C15: the dummy forward pass runs only in a step that starts after validate()
\* has returned, with --test given and valid = True in the result, and it never
\* runs a second time; a pass that fails appends exactly one warning and leaves
\* valid, the errors and the stored compatibility_score as they were; a pass
\* that succeeds leaves the warnings as they were too.
C15_TestInferenceOnceAfterValid ==
    [][ /\ (v_pc' = "tested" \/ (v_pc # "start" /\ validation_results' # validation_results)) =>
              /\ v_pc = "validated" /\ v_pc' = "tested"
              /\ args.test /\ validation_results.valid
              /\ HasInfo(validation_results, "compatibility_score")
              /\ validation_results'.valid = validation_results.valid
              /\ validation_results'.errors = validation_results.errors
              /\ Score(validation_results') = Score(validation_results)
              /\ (test_outcome = "passes") =>
                    validation_results'.warnings = validation_results.warnings
              /\ (test_outcome # "passes") =>
                    /\ Len(validation_results'.warnings) = Len(validation_results.warnings) + 1
                    /\ SubSeq(validation_results'.warnings, 1, Len(validation_results.warnings))
                          = validation_results.warnings
        /\ (v_pc \in {"tested", "exited", "crashed"}) => v_pc' \in {v_pc, "exited"}
      ]_vars

\* the forward pass has failed on a model that validate() found valid with
\* warnings of its own
C15_Witness ==
    /\ v_pc = "tested"
    /\ test_outcome = "raises_after_timing"
    /\ validation_results.valid
    /\ Len(validation_results.warnings) >= 2
    /\ HasInfo(validation_results, "compatibility_score")

\* C16: a call of save_masks that returns, given the masks of one image with k
\* objects, writes exactly one file, at output_path, holding mask 0, when k = 1;
\* writes exactly k files, <image stem>_obj<i>.png holding mask i for i = 0..k-1,
\* and nothing at output_path when k >= 2; and writes nothing when k = 0.
C16_SaveMasksFiles ==
    [][ (b_pc = "save" /\ b_j' = b_j + 1) =>
            LET masks   == batch_masks[b_j + 1]
                name    == batch_names[b_j + 1]
                k       == masks.objects
                written == SubSeq(b_log', Len(b_log) + 1, Len(b_log'))
            IN  /\ Len(b_log') >= Len(b_log)
                /\ SubSeq(b_log', 1, Len(b_log)) = b_log
                /\ \A n \in 1..Len(written) : written[n].ev = "write"
                /\ DOMAIN output_dir' =
                      DOMAIN output_dir \cup {written[n].file : n \in 1..Len(written)}
                /\ \A f \in DOMAIN output_dir :
                      (\A n \in 1..Len(written) : written[n].file # f) =>
                          output_dir'[f] = output_dir[f]
                /\ (k = 1) =>
                      /\ Len(written) = 1
                      /\ written[1].file = OutputName(name)
                      /\ output_dir'[OutputName(name)] = [image |-> masks.image, obj |-> 0]
                /\ (k >= 2) =>
                      /\ Len(written) = k
                      /\ \A i \in 0..(k - 1) :
                            /\ written[i + 1].file = ObjectName(name, i)
                            /\ output_dir'[ObjectName(name, i)] =
                                  [image |-> masks.image, obj |-> i]
                      /\ \A n \in 1..Len(written) : written[n].file # OutputName(name)
                /\ (k = 0) => written = <<>>
      ]_vars

\* a finished run without error in which an image with no object, one with one
\* object and one with two objects have been saved
C16_Witness ==
    /\ b_pc = "done"
    /\ NoBatchError
    /\ \A k \in 1..Len(boxes_file) : boxes_file[k].exists
    /\ {boxes_file[k].boxes : k \in 1..Len(boxes_file)} = BoxCounts
    /\ Cardinality(DOMAIN output_dir) = 3

\* C17: the score printed in the "Compatibility Score: X/100" line, from which the
\* rating is picked, is the value stored in info['compatibility_score'], and
\* lies in 0..100.
C17_PrintedScoreIsStored ==
    (printed_score # NoValue) =>
        /\ printed_score = Score(validation_results)
        /\ printed_score \in 0..100

\* C18: a press of 's' (save_mask) leaves positive_points, negative_points,
\* current_mask and display_mask as they were, calls no model and writes the
\* display mask to the output file; get_visualization shows the points and the
\* display mask the segmenter has after the click or reset, changing none; the
\* output mask file changes only in a press of 's': no click, reset or quit
\* writes it.
C18_SaveAndShowChangeNothing ==
    [][ /\ (s_last' = "save") =>
              /\ segmenter' = segmenter
              /\ model_calls' = model_calls /\ window' = window
              /\ mask_file' = [png_of |-> segmenter.display_mask]
        /\ (mask_file' # mask_file) => s_last' = "save"
        /\ (s_last' \in {"click", "reset", "quit"}) => mask_file' = mask_file
        /\ (s_last' \in {"click", "reset"}) =>
              window' = [image    |-> segmenter'.image.name,
                         overlay  |-> segmenter'.display_mask,
                         positive |-> segmenter'.positive_points,
                         negative |-> segmenter'.negative_points]
      ]_vars

\* the mask has been saved after a click, then a click has changed the mask and
\* the file still holds the mask saved
C18_Witness ==
    /\ s_last = "click"
    /\ mask_file # NoFile
    /\ mask_file.png_of # segmenter.display_mask
    /\ Len(click_log) >= 2

\* C19: image_embeddings and original_sizes are those of the segmenter's image,
\* set by _initialize_segmentation at construction and again on reset, the only
\* steps in which the model is called on the image itself; a click leaves both
\* as they were and makes one call of the model, with points and with the stored
\* embeddings of the most recent initialization; saving and quitting call no
\* model.
C19_EmbeddingsFromInitialization ==
    [][ /\ segmenter.image_embeddings = [of_image |-> segmenter.image.name]
        /\ segmenter.original_sizes = <<segmenter.image.size>>
        /\ (s_last' = "click") =>
              /\ segmenter'.image_embeddings = segmenter.image_embeddings
              /\ segmenter'.original_sizes = segmenter.original_sizes
              /\ Len(model_calls') = Len(model_calls) + 1
              /\ SubSeq(model_calls', 1, Len(model_calls)) = model_calls
              /\ model_calls'[Len(model_calls')].kind = "points"
              /\ model_calls'[Len(model_calls')].image_embeddings = segmenter.image_embeddings
        /\ (s_last' = "reset") =>
              /\ Len(model_calls') = Len(model_calls) + 1
              /\ model_calls'[Len(model_calls')].kind = "box"
              /\ model_calls'[Len(model_calls')].image_embeddings = NoEmbeddings
              /\ segmenter'.image_embeddings = [of_image |-> segmenter.image.name]
              /\ segmenter'.original_sizes = <<segmenter.image.size>>
        /\ (s_last' \in {"save", "quit"}) =>
              /\ segmenter'.image_embeddings = segmenter.image_embeddings
              /\ segmenter'.original_sizes = segmenter.original_sizes
              /\ model_calls' = model_calls
      ]_vars

\* a click made after a reset: the last call carries points and the embeddings
\* stored by the reset, and the only calls on the image are the two
\* initializations
C19_Witness ==
    /\ s_last = "click"
    /\ Resets = 1
    /\ Len(click_log) >= 1
    /\ LastCall.kind = "points"
    /\ LastCall.image_embeddings = segmenter.image_embeddings
    /\ Cardinality({k \in 1..Len(model_calls) : model_calls[k].kind = "box"}) = 2

====
